---- MODULE Spec2Model ----
(***************************************************************************)
(* Model of xspec_emcee.py: the resumable MCMC driver doMCMC, its          *)
(* checkpoint writer writeNpz and its chain exporter writeXSpecChain.      *)
(*                                                                         *)
(* The chain buffer chain[walker, iteration, parameter] is a sequence over *)
(* the iteration axis (axis 1) of matrices [walker -> [parameter -> v]];   *)
(* lnprob[walker, iteration] is a sequence over the iteration axis of      *)
(* vectors [walker -> v].  The control position pc of doMCMC is explicit   *)
(* because KeyboardInterrupt is asynchronous: it is raised between any two *)
(* statements, and so between the statements of one loop iteration.        *)
(***************************************************************************)
EXTENDS Integers, Sequences, FiniteSets, TLC

\* ---------------------------------------------------------------- bounds
MaxIters == 2
MaxBurn == 1
NWalkers == 2
NDims == 2
NSamples == 2
MaxEntryLen == 4
MaxSystems == 2

\* 60*10 seconds, in units of MaxStepTime/3 so that one slow step exceeds it
SaveInterval == 2

Walkers == 1..NWalkers
Dims == 1..NDims

\* ------------------------------------------------------- the sampler's output
\* emcee's sampler is external: each step yields one of NSamples results
\* (positions p[w][j], log-probabilities l[w]); all values are non-zero, so a
\* written iteration is distinguishable from N.zeros.
SamplePos(k) == [w \in Walkers |-> [j \in Dims |->
                    1 + (((w - 1) * NDims + (j - 1) + (k - 1) * NWalkers * NDims) % 9)]]

\* every second result has log-probabilities whose -2*l needs more significant
\* digits than '%g' prints
SampleLn(k) == [w \in Walkers |->
                   0 - ((IF k % 2 = 0 THEN 500000 ELSE 0) + w + (k - 1) * NWalkers)]

Samples == {[p |-> SamplePos(k), l |-> SampleLn(k)] : k \in 1..NSamples}

\* time one sampler step takes: fast, or longer than the autosave interval
StepTimes == {1, SaveInterval + 1}

\* N.zeros((nwalkers, n, ndims)) and N.zeros((nwalkers, n))
ZeroPos == [w \in Walkers |-> [j \in Dims |-> 0]]

ZeroLn == [w \in Walkers |-> 0]

Zeros3(n) == [i \in 1..n |-> ZeroPos]

Zeros2(n) == [i \in 1..n |-> ZeroLn]

\* ------------------------------------------------------------ files on disk
Absent == [kind |-> "absent", chain |-> <<>>, lnprobability |-> <<>>]

\* a file opened for writing whose write did not finish
Partial == [kind |-> "partial", chain |-> <<>>, lnprobability |-> <<>>]

NoChainFile == [kind |-> "absent", length |-> 0, width |-> 0, rows |-> <<>>]

PartialChainFile == [kind |-> "partial", length |-> 0, width |-> 0, rows |-> <<>>]

\* p0 before it is built
NoPos == [src |-> "none", val |-> ZeroPos]

\* getInitialParameters: the clipped normal draws (one representative matrix)
InitialDraw == [src |-> "draw", val |-> [w \in Walkers |-> [j \in Dims |-> w]]]

\* N.loadtxt(initialparameters)
LoadedTxt == [src |-> "file", val |-> [w \in Walkers |-> [j \in Dims |-> j]]]

\* ------------------------------------------------------ the parameter model
\* pool.parlist: parameter 1 is frozen, parameters 2..NDims+1 are free; every
\* odd-numbered parameter is sampled in log space.
ParList == [n \in 1..(NDims + 1) |-> [index |-> n, log |-> (n % 2 = 1)]]

\* pool.paridxs: the 1-based indices in parlist of the free parameters
ParIdxs == [j \in Dims |-> j + 1]

\* ------------------------------------------------------------------ writeNpz
\* lines 175-177: the assignments rebind writeNpz's own names chain and lnprob
\* to truncated copies; the arrays of the caller are the ones it passed
AfterWriteNpzInPlace(buffer, maxindex) ==
    IF maxindex < Len(buffer) THEN SubSeq(buffer, 1, maxindex) ELSE buffer

AfterWriteNpz(buffer, maxindex) == buffer

\* lines 175-177: the buffers truncated to maxindex iterations
TruncateAll(chain_, lnprob_, maxindex) ==
    [kind |-> "npz", chain |-> chain_, lnprobability |-> lnprob_]

\* the slices [:, :maxindex+1, :] and [:, :maxindex+1]
TruncateInclusive(chain_, lnprob_, maxindex) ==
    IF maxindex < Len(chain_)
    THEN [kind |-> "npz",
          chain |-> SubSeq(chain_, 1, maxindex + 1),
          lnprobability |-> SubSeq(lnprob_, 1, maxindex + 1)]
    ELSE [kind |-> "npz", chain |-> chain_, lnprobability |-> lnprob_]

Truncate(chain_, lnprob_, maxindex) ==
    IF maxindex < Len(chain_)
    THEN [kind |-> "npz",
          chain |-> SubSeq(chain_, 1, maxindex),
          lnprobability |-> SubSeq(lnprob_, 1, maxindex)]
    ELSE [kind |-> "npz", chain |-> chain_, lnprobability |-> lnprob_]

\* ----------------------------------------------------------- writeXSpecChain
Pow10(v) == 10 ^ v

\* the parameter whose log flag line 152 would read if it took the position
\* i of enumerate(paridxs) for the index idx
ExportCellByPosition(chain_, w, i, j) ==
    IF ParList[j].log THEN Pow10(chain_[i][w][j]) ELSE chain_[i][w][j]

\* lines 144-153: N.reshape of the (walker, iteration, parameter) array to
\* (length, width) rows in C order, the column -lnprob*2 stacked after it, then
\* 10** applied to the columns of the log parameters
ExportCell(chain_, w, i, j) ==
    IF ParList[ParIdxs[j]].log THEN Pow10(chain_[i][w][j]) ELSE chain_[i][w][j]

\* lines 166-168: '%g' writes a number with GPrecision significant digits,
\* rounding half to even
GPrecision == 6

RECURSIVE GScale(_, _)
GScale(a, q) == IF a \div q < 10 ^ GPrecision THEN q ELSE GScale(a, q * 10)

GRound(a) ==
    LET q == GScale(a, 1)
        d == a \div q
        r == a % q
    IN  IF 2 * r > q \/ (2 * r = q /\ d % 2 = 1) THEN (d + 1) * q ELSE d * q

GFormat(x) == IF x < 0 THEN 0 - GRound(0 - x) ELSE GRound(x)

ExportRow(chain_, lnprob_, w, i) ==
    [c \in 1..(NDims + 1) |->
        GFormat(IF c <= NDims THEN ExportCell(chain_, w, i, c)
                              ELSE (0 - lnprob_[i][w]) * 2)]

\* lines 148-153: column_stack builds a new array, which the local name chain
\* then names; 10** is applied to that array, -lnprob*2 is a new array too
AfterExportInPlace(chain_) ==
    [i \in 1..Len(chain_) |->
        [w \in Walkers |-> [j \in Dims |-> ExportCell(chain_, w, i, j)]]]

AfterExport(chain_) == chain_

\* line 144: length = chain.shape[0] * chain.shape[1]
ExportLengthIters(chain_) == Len(chain_)

ExportLength(chain_) == NWalkers * Len(chain_)

XSpecChain(chain_, lnprob_) ==
    LET n == Len(chain_)
        length == ExportLength(chain_)
        width == NDims
    IN  [kind |-> "chain",
         length |-> length,
         width |-> width + 1,
         rows |-> [r \in 1..length |->
                     ExportRow(chain_, lnprob_, ((r - 1) \div n) + 1, ((r - 1) % n) + 1)]]

\* autosave=True: main() never passes another value
autosave == TRUE

\* ------------------------------------------------------------------- state
VARIABLES
    continuerun, nburn, niters, initialparameters,  \* arguments of doMCMC
    pc,          \* control position in doMCMC
    p0, pos, state, burnleft,
    chain, lnprob, start, index,
    remaining,   \* iterations the sampler.sample generator has still to yield
    p, l,        \* the value yielded by the generator for the step in flight
    elapsed,     \* time.time() - lastsave
    wrec,        \* the arrays handed to N.savez by the writeNpz call in progress
    npz,         \* the file outnpz
    outfile,     \* the file outchain
    interrupted, \* the except KeyboardInterrupt clause was entered
    cause,       \* the exception that left doMCMC, "" if none
    npz0,        \* history: outnpz as it was when doMCMC was called
    loaded,      \* history: what N.load(outnpz) returned
    steps,       \* history: values yielded by sampler.sample in this call
    savedAt,     \* history: index at the last writeNpz call that began
    written,     \* history: the last writeNpz call of this run that finished
    exported,    \* history: writeXSpecChain was called in this run
    raised,      \* history: the first exception raised in this run, "" if none
    raisedAt,    \* history: the control position at which it was raised
    yielded,     \* history: the values sampler.sample yielded in this call, in order
    parameters, nwalkers,  \* arguments of getInitialParameters
    gpc,         \* control position in getInitialParameters
    gp0,         \* its list p0
    pwalker,     \* its list pwalker
    normal,      \* history: the arguments of its last N.random.normal call
    systems,     \* argument of expandSystems
    out,         \* its list out
    spos         \* the entries of systems its for loop has taken

args == <<continuerun, nburn, niters, initialparameters>>

locals == <<p0, pos, state, burnleft, chain, lnprob, start, index, remaining,
            p, l, elapsed, wrec>>

files == <<npz, outfile>>

history == <<npz0, loaded, steps, savedAt, written, exported, raised, raisedAt,
             yielded>>

\* the state of doMCMC
mcmc == <<args, pc, locals, files, interrupted, cause, history>>

\* the state of a call of getInitialParameters and of a call of expandSystems
gip == <<parameters, nwalkers, gpc, gp0, pwalker, normal>>

sys == <<systems, out, spos>>

pure == <<gip, sys>>

vars == <<mcmc, pure>>

\* no descriptor, and the arguments of a draw before any draw
NoNormal == [par |-> 0, loc |-> 0, scale |-> 0]

\* getInitialParameters is not being followed
NoGip ==
    /\ parameters = <<>> /\ nwalkers = 0 /\ gpc = "idle"
    /\ gp0 = <<>> /\ pwalker = <<>> /\ normal = NoNormal

\* expandSystems is not being followed
NoSys == systems = <<>> /\ out = <<>> /\ spos = 0

NoCall == NoGip /\ NoSys

\* no call of doMCMC is in progress: the values its locals have before the
\* first statement
Idle ==
    /\ p0 = NoPos /\ pos = NoPos /\ state = "None" /\ burnleft = 0
    /\ chain = <<>> /\ lnprob = <<>> /\ start = 0 /\ index = 0
    /\ remaining = 0
    /\ p = ZeroPos /\ l = ZeroLn
    /\ elapsed = 0
    /\ wrec = Absent
    /\ interrupted = FALSE /\ cause = ""
    /\ loaded = Absent /\ steps = 0 /\ savedAt = 0 /\ written = "none"
    /\ exported = FALSE
    /\ raised = "" /\ raisedAt = ""
    /\ yielded = <<>>

\* before the first run: no file exists
NoRun ==
    /\ pc = "idle"
    /\ continuerun = FALSE /\ nburn = 0 /\ niters = 0 /\ initialparameters = FALSE
    /\ Idle
    /\ npz = Absent /\ outfile = NoChainFile
    /\ npz0 = Absent

Init == NoRun /\ NoCall

\* ------------------------------------------------------------- doMCMC: setup
SetupPcs == {"pool", "p0", "burnq", "burn", "alloc"}

\* the statements inside try: (lines 116-127)
TryPcs == {"loop", "step", "w1", "w2", "w3", "chk", "asave1", "asave2"}

WritePcs == {"asave1", "asave2", "export1", "export2", "final1", "final2"}

Min(a, b) == IF a < b THEN a ELSE b

\* lines 62-64
CreatePool ==
    /\ pc = "pool"
    /\ pc' = "p0"
    /\ UNCHANGED <<pure, args, locals, files, interrupted, cause, history>>

\* lines 66-72
InitialParams ==
    /\ pc = "p0"
    /\ p0' = IF ~initialparameters THEN InitialDraw ELSE LoadedTxt
    /\ pc' = "burnq"
    /\ UNCHANGED <<pure, args, pos, state, burnleft, chain, lnprob, start, index,
                   remaining, p, l, elapsed, wrec, files, interrupted, cause, history>>

\* line 77: if not continuerun and nburn > 0
BurnInWhenever(continuerun_, nburn_) == nburn_ > 0

BurnIn(continuerun_, nburn_) == ~continuerun_ /\ nburn_ > 0

\* lines 77-86: the burn-in test; run_mcmc starts from p0
BurnInTest ==
    /\ pc = "burnq"
    /\ IF BurnIn(continuerun, nburn)
       THEN /\ burnleft' = nburn
            /\ pos' = p0
            /\ state' = state
            /\ pc' = "burn"
       ELSE /\ state' = "None"
            /\ pos' = p0
            /\ burnleft' = burnleft
            /\ pc' = "alloc"
    /\ UNCHANGED <<pure, args, p0, chain, lnprob, start, index, remaining, p, l,
                   elapsed, wrec, files, interrupted, cause, history>>

\* lines 80-81: one iteration of sampler.run_mcmc(p0, nburn); after the last
\* one sampler.reset() drops the sampler's own chain and pos, state are kept
BurnStep ==
    /\ pc = "burn"
    /\ burnleft > 0
    /\ \E s \in Samples :
         pos' = [src |-> "burn", val |-> s.p]
    /\ state' = "burnt"
    /\ burnleft' = burnleft - 1
    /\ pc' = IF burnleft = 1 THEN "alloc" ELSE "burn"
    /\ UNCHANGED <<pure, args, p0, chain, lnprob, start, index, remaining, p, l,
                   elapsed, wrec, files, interrupted, cause, history>>

\* line 118: iterations = niters - start
IterationsAll(niters_, start_) == niters_

Iterations(niters_, start_) == niters_ - start_

\* lines 88-91 and 113-118 for a fresh run
AllocFresh ==
    /\ pc = "alloc"
    /\ ~continuerun
    /\ chain' = Zeros3(niters)
    /\ lnprob' = Zeros2(niters)
    /\ start' = 0
    /\ index' = 0
    /\ remaining' = Iterations(niters, 0)
    /\ elapsed' = 0
    /\ pc' = "loop"
    /\ UNCHANGED <<pure, args, p0, pos, state, burnleft, p, l, wrec, files,
                   interrupted, cause, history>>

\* line 114: index = start
ResumeIndexZero(start_) == 0

ResumeIndex(start_) == start_

\* lines 93-110 and 113-118 for a resumed run.  N.load raises when the file is
\* missing or is no complete archive; chain[:, -1, :] raises IndexError when the
\* loaded chain has no iteration; N.zeros raises ValueError for a negative
\* dimension.
LoadNpz ==
    /\ pc = "alloc"
    /\ continuerun
    /\ IF npz.kind # "npz"
       THEN /\ pc' = "crashed" /\ cause' = "IOError"
            /\ raised' = "IOError" /\ raisedAt' = pc
            /\ UNCHANGED <<chain, lnprob, start, pos, index, remaining, elapsed, loaded>>
       ELSE /\ loaded' = npz
            /\ start' = Len(npz.chain)
            /\ IF Len(npz.chain) = 0
               THEN /\ pc' = "crashed" /\ cause' = "IndexError"
                    /\ raised' = "IndexError" /\ raisedAt' = pc
                    /\ chain' = npz.chain /\ lnprob' = npz.lnprobability
                    /\ UNCHANGED <<pos, index, remaining, elapsed>>
               ELSE /\ pos' = [src |-> "chain", val |-> npz.chain[Len(npz.chain)]]
                    /\ IF niters - Len(npz.chain) < 0
                       THEN /\ pc' = "crashed" /\ cause' = "ValueError"
                            /\ raised' = "ValueError" /\ raisedAt' = pc
                            /\ chain' = npz.chain /\ lnprob' = npz.lnprobability
                            /\ UNCHANGED <<index, remaining, elapsed>>
                       ELSE /\ chain' = npz.chain \o Zeros3(niters - Len(npz.chain))
                            /\ lnprob' = npz.lnprobability \o Zeros2(niters - Len(npz.chain))
                            /\ index' = ResumeIndex(Len(npz.chain))
                            /\ remaining' = Iterations(niters, Len(npz.chain))
                            /\ elapsed' = 0
                            /\ pc' = "loop" /\ cause' = cause
                            /\ UNCHANGED <<raised, raisedAt>>
    /\ UNCHANGED <<pure, args, p0, state, burnleft, p, l, wrec, files, interrupted,
                   npz0, steps, yielded, savedAt, written, exported>>

\* ------------------------------------------------------ doMCMC: the loop
\* lines 131-132: the else clause of the try statement, taken when the loop
\* ends without an exception
AfterLoopNoExport == "final1"

AfterLoop == "export1"

\* lines 129-130, 134: the except clause only prints; control goes on to the
\* statement after the try statement
AfterInterruptExports == "export1"

AfterInterruptGoesOn == "loop"

AfterInterrupt == "final1"

\* line 129: the exceptions the except clause matches
CaughtAny(exc) == TRUE

Caught(exc) == exc = "KeyboardInterrupt"

\* line 116: the for statement asks the generator for its next value, which
\* starts a sampler step if the generator has iterations left
SamplerNext ==
    /\ pc = "loop"
    /\ IF remaining > 0
       THEN /\ remaining' = remaining - 1
            /\ pc' = "step"
       ELSE /\ remaining' = remaining
            /\ pc' = AfterLoop
    /\ UNCHANGED <<pure, args, p0, pos, state, burnleft, chain, lnprob, start, index,
                   p, l, elapsed, wrec, files, interrupted, cause, history>>

\* lines 116-118: the sampler advances every walker once (the pool evaluates
\* the whole population) and yields p, l; the step took dt
StepDone ==
    /\ pc = "step"
    /\ \E s \in Samples :
         /\ p' = s.p
         /\ l' = s.l
         /\ yielded' = Append(yielded, s)
    /\ \E dt \in StepTimes :
         elapsed' = Min(elapsed + dt, SaveInterval + 1)
    /\ steps' = steps + 1
    /\ pc' = "w1"
    /\ UNCHANGED <<pure, args, p0, pos, state, burnleft, chain, lnprob, start, index,
                   remaining, wrec, files, interrupted, cause, npz0, loaded,
                   savedAt, written, exported, raised, raisedAt>>

\* line 120: chain[:, index, :] = p
WriteChain ==
    /\ pc = "w1"
    /\ IF index < Len(chain)
       THEN /\ chain' = [chain EXCEPT ![index + 1] = p]
            /\ pc' = "w2" /\ cause' = cause
       ELSE /\ chain' = chain
            /\ pc' = "crashed" /\ cause' = "IndexError"
    /\ raised' = IF index < Len(chain) \/ raised # "" THEN raised ELSE "IndexError"
    /\ raisedAt' = IF index < Len(chain) \/ raised # "" THEN raisedAt ELSE pc
    /\ UNCHANGED <<pure, args, p0, pos, state, burnleft, lnprob, start, index,
                   remaining, p, l, elapsed, wrec, files, interrupted,
                   npz0, loaded, steps, yielded, savedAt, written, exported>>

\* line 121: lnprob[:, index] = l
WriteLnprob ==
    /\ pc = "w2"
    /\ lnprob' = [lnprob EXCEPT ![index + 1] = l]
    /\ pc' = "w3"
    /\ UNCHANGED <<pure, args, p0, pos, state, burnleft, chain, start, index,
                   remaining, p, l, elapsed, wrec, files, interrupted, cause, history>>

\* line 122: index += 1
IncIndex ==
    /\ pc = "w3"
    /\ index' = index + 1
    /\ pc' = "chk"
    /\ UNCHANGED <<pure, args, p0, pos, state, burnleft, chain, lnprob, start,
                   remaining, p, l, elapsed, wrec, files, interrupted, cause, history>>

\* lines 124-126: the autosave test; lastsave = time.time() when it is taken
AutosaveTest ==
    /\ pc = "chk"
    /\ IF autosave /\ elapsed > SaveInterval
       THEN /\ elapsed' = 0
            /\ pc' = "asave1"
       ELSE /\ elapsed' = elapsed
            /\ pc' = "loop"
    /\ UNCHANGED <<pure, args, p0, pos, state, burnleft, chain, lnprob, start, index,
                   remaining, p, l, wrec, files, interrupted, cause, history>>

\* ------------------------------------------------------------------ writeNpz
\* lines 170-179 (called at 127 and at 134): the arrays to save are cut to
\* maxindex, then N.savez opens the file for writing
WriteNpzOpen ==
    /\ pc \in {"asave1", "final1"}
    /\ wrec' = Truncate(chain, lnprob, index)
    /\ savedAt' = index
    /\ npz' = Partial
    /\ pc' = IF pc = "asave1" THEN "asave2" ELSE "final2"
    /\ chain' = AfterWriteNpz(chain, index)
    /\ lnprob' = AfterWriteNpz(lnprob, index)
    /\ UNCHANGED <<pure, args, p0, pos, state, burnleft, start, index,
                   remaining, p, l, elapsed, outfile, interrupted, cause,
                   npz0, loaded, steps, yielded, written, exported, raised, raisedAt>>

\* line 127 is the last statement of the loop body: the for statement goes on
AfterAutosaveEnds == AfterLoop

AfterAutosave == "loop"

\* lines 179-182: N.savez finishes; writeNpz returns to the loop (127) or
\* doMCMC returns (134)
WriteNpzClose ==
    /\ pc \in {"asave2", "final2"}
    /\ npz' = wrec
    /\ wrec' = Absent
    /\ written' = IF pc = "asave2" THEN "autosave" ELSE "final"
    /\ pc' = IF pc = "asave2" THEN AfterAutosave ELSE "done"
    /\ UNCHANGED <<pure, args, p0, pos, state, burnleft, chain, lnprob, start, index,
                   remaining, p, l, elapsed, outfile, interrupted, cause,
                   npz0, loaded, steps, yielded, savedAt, exported, raised, raisedAt>>

\* ----------------------------------------------------------- writeXSpecChain
\* lines 131-132, 140-146: the else clause of the try statement opens outchain
ExportOpen ==
    /\ pc = "export1"
    /\ outfile' = PartialChainFile
    /\ exported' = TRUE
    /\ pc' = "export2"
    /\ UNCHANGED <<pure, args, locals, npz, interrupted, cause, npz0, loaded, steps,
                   yielded, savedAt, written, raised, raisedAt>>

\* lines 148-168: the table is built from copies of the buffers and written
ExportClose ==
    /\ pc = "export2"
    /\ outfile' = XSpecChain(chain, lnprob)
    /\ chain' = AfterExport(chain)
    /\ pc' = "final1"
    /\ UNCHANGED <<pure, args, p0, pos, state, burnleft, lnprob, start, index,
                   remaining, p, l, elapsed, wrec, npz, interrupted, cause, history>>

\* ------------------------------------------------------------- exceptions
\* lines 115, 129-134: an exception raised at control position pc.  Inside the
\* try statement an exception the except clause matches is caught and control
\* goes on after the try statement; any other leaves doMCMC.
Raise(exc) ==
    /\ IF pc \in TryPcs /\ Caught(exc)
       THEN /\ interrupted' = TRUE
            /\ pc' = AfterInterrupt
            /\ cause' = cause
       ELSE /\ interrupted' = interrupted
            /\ pc' = "crashed"
            /\ cause' = exc
    /\ raised' = IF raised = "" THEN exc ELSE raised
    /\ raisedAt' = IF raised = "" THEN pc ELSE raisedAt
    /\ UNCHANGED <<pure, args, locals, files, npz0, loaded, steps, yielded, savedAt,
                   written, exported>>

\* Ctrl+C: raised between any two statements of the running program
KeyboardInterrupt ==
    /\ pc \in SetupPcs \cup TryPcs \cup WritePcs
    /\ Raise("KeyboardInterrupt")

\* an exception of the evaluation pool, raised where the pool is used: in
\* XspecPool(), in run_mcmc and in a step of sampler.sample
PoolFailure ==
    /\ pc \in {"pool", "burn", "step"}
    /\ Raise("PoolError")

\* N.loadtxt, open() or a write raises IOError
IOFailure ==
    /\ \/ pc = "p0" /\ initialparameters
       \/ pc \in WritePcs
    /\ Raise("IOError")

\* ------------------------------------------------------------ the process
\* lines 184-234: main() parses the arguments and calls doMCMC once.  A later
\* run of the program finds outnpz as the earlier runs left it; it is given an
\* outchain that does not exist yet.
Main ==
    /\ pc = "idle"
    /\ continuerun' \in BOOLEAN
    /\ nburn' \in 0..MaxBurn
    /\ niters' \in 0..MaxIters
    /\ initialparameters' \in BOOLEAN
    /\ pc' = "pool"
    /\ npz0' = npz
    /\ UNCHANGED <<pure, locals, files, interrupted, cause, loaded, steps, yielded,
                   savedAt, written, exported, raised, raisedAt>>

\* doMCMC has returned or raised: the process ends, only the files remain
Exit ==
    /\ pc \in {"done", "crashed"}
    /\ pc' = "idle"
    /\ continuerun' = FALSE /\ nburn' = 0 /\ niters' = 0 /\ initialparameters' = FALSE
    /\ p0' = NoPos /\ pos' = NoPos /\ state' = "None" /\ burnleft' = 0
    /\ chain' = <<>> /\ lnprob' = <<>> /\ start' = 0 /\ index' = 0
    /\ remaining' = 0
    /\ p' = ZeroPos /\ l' = ZeroLn
    /\ elapsed' = 0
    /\ wrec' = Absent
    /\ interrupted' = FALSE /\ cause' = ""
    /\ loaded' = Absent /\ steps' = 0 /\ savedAt' = 0 /\ written' = "none"
    /\ exported' = FALSE
    /\ raised' = "" /\ raisedAt' = ""
    /\ yielded' = <<>>
    /\ npz0' = npz
    /\ npz' = npz
    /\ outfile' = NoChainFile
    /\ UNCHANGED pure

Next ==
    \/ CreatePool
    \/ InitialParams
    \/ BurnInTest
    \/ BurnStep
    \/ AllocFresh
    \/ LoadNpz
    \/ SamplerNext
    \/ StepDone
    \/ WriteChain
    \/ WriteLnprob
    \/ IncIndex
    \/ AutosaveTest
    \/ WriteNpzOpen
    \/ WriteNpzClose
    \/ ExportOpen
    \/ ExportClose
    \/ KeyboardInterrupt
    \/ PoolFailure
    \/ IOFailure
    \/ Main
    \/ Exit

Spec == Init /\ [][Next]_vars

\* the statements of the program itself.  The interpreter runs them one after
\* another: while doMCMC has a next statement, and the sampler step or the
\* file write it waits for returns, that statement is executed.
Run ==
    \/ CreatePool
    \/ InitialParams
    \/ BurnInTest
    \/ BurnStep
    \/ AllocFresh
    \/ LoadNpz
    \/ SamplerNext
    \/ StepDone
    \/ WriteChain
    \/ WriteLnprob
    \/ IncIndex
    \/ AutosaveTest
    \/ WriteNpzOpen
    \/ WriteNpzClose
    \/ ExportOpen
    \/ ExportClose

\* the program when nothing reaches it from outside: no Ctrl+C, no failure of
\* the pool, no failure of a file write
LiveNext ==
    \/ Run
    \/ Main
    \/ Exit

LiveSpec == Init /\ [][LiveNext]_vars /\ WF_vars(Run)

\* ------------------------------------------------------ getInitialParameters
\* a parameter descriptor, with the fields lines 28-36 read.  val_sigma is a
\* multiple of 10 here, so that val_sigma*0.1 is a whole number.
Descriptor(i, d, s, lo, hi) ==
    [val_init |-> i, val_delta |-> d, val_sigma |-> s,
     val_hardmin |-> lo, val_hardmax |-> hi]

\* val_sigma*0.1 below, equal to and above val_delta, zero and negative; hard
\* ranges that cut the draws, that do not, and one with val_hardmin above
\* val_hardmax
Descriptors ==
    { Descriptor(0, 2, 10, 0 - 1, 1),
      Descriptor(1, 2, 0, 0 - 5, 5),
      Descriptor(0, 2, 20, 0 - 5, 5),
      Descriptor(1, 1, 30, 0, 2),
      Descriptor(0, 2, 0 - 10, 0 - 1, 1),
      Descriptor(0, 3, 20, 2, 1) }

\* the lists of at most NDims descriptors
ParameterLists == UNION {[1..n -> Descriptors] : n \in 0..NDims}

\* N.random.normal(loc, scale) is loc + scale*z for a standard normal deviate
\* z: one below and one above the mean
StdNormal == {0 - 2, 2}

\* line 29: par['val_sigma']*0.1
SWidth(par) == par.val_sigma \div 10

\* lines 28-32 without the test swidth > 0
WidthSmaller(par) ==
    IF SWidth(par) < par.val_delta THEN SWidth(par) ELSE par.val_delta

\* lines 28-32
Width(par) ==
    IF SWidth(par) > 0 /\ SWidth(par) < par.val_delta
    THEN SWidth(par)
    ELSE par.val_delta

Max(a, b) == IF a > b THEN a ELSE b

\* N.clip with the upper limit left out
ClipBelow(v, a_min, a_max) == Max(v, a_min)

\* line 36: N.clip(v, a_min, a_max) is minimum(a_max, maximum(v, a_min))
Clip(v, a_min, a_max) == Min(a_max, Max(v, a_min))

\* lines 23-24 and 39: the next walker of xrange(nwalkers), or the return
GipWalker ==
    /\ gpc = "walker"
    /\ IF Len(gp0) < nwalkers
       THEN /\ pwalker' = <<>>
            /\ gpc' = "par"
       ELSE /\ pwalker' = pwalker
            /\ gpc' = "returned"
    /\ UNCHANGED <<mcmc, sys, parameters, nwalkers, gp0, normal>>

\* lines 27-36: one parameter of the walker is drawn, clipped and appended
GipPar ==
    /\ gpc = "par"
    /\ Len(pwalker) < Len(parameters)
    /\ LET par == parameters[Len(pwalker) + 1]
           width == Width(par)
       IN  \E z \in StdNormal :
             /\ normal' = [par |-> Len(pwalker) + 1, loc |-> par.val_init,
                           scale |-> width]
             /\ pwalker' = Append(pwalker,
                                  Clip(par.val_init + width * z,
                                       par.val_hardmin, par.val_hardmax))
    /\ UNCHANGED <<mcmc, sys, parameters, nwalkers, gpc, gp0>>

\* line 37: p0.append(N.array(pwalker)) after the last parameter
GipAppend ==
    /\ gpc = "par"
    /\ Len(pwalker) = Len(parameters)
    /\ gp0' = Append(gp0, pwalker)
    /\ gpc' = "walker"
    /\ UNCHANGED <<mcmc, sys, parameters, nwalkers, pwalker, normal>>

\* a call of getInitialParameters with any descriptors and walker count
GipInit ==
    /\ NoRun
    /\ NoSys
    /\ parameters \in ParameterLists
    /\ nwalkers \in 0..NWalkers
    /\ gpc = "walker"
    /\ gp0 = <<>> /\ pwalker = <<>> /\ normal = NoNormal

GipNext ==
    \/ GipWalker
    \/ GipPar
    \/ GipAppend

GipSpec == GipInit /\ [][GipNext]_vars

\* ------------------------------------------------------------ expandSystems
\* an entry of systems is a string, here the sequence of its characters: a
\* letter, a digit, a character that is neither, and the asterisk
Letters == {"a"}

Digits == {"2"}

Chars == Letters \cup Digits \cup {"-", "*"}

\* the non-empty strings of at most MaxEntryLen characters
Entries == UNION {[1..n -> Chars] : n \in 1..MaxEntryLen}

SystemLists == UNION {[1..n -> Entries] : n \in 0..MaxSystems}

\* the number of characters of str from position k on that are in class
RECURSIVE Span(_, _, _)
Span(str, k, class) ==
    IF k <= Len(str) /\ str[k] \in class THEN 1 + Span(str, k + 1, class) ELSE 0

\* line 45: re.match(r'([A-Za-z0-9]+)\*([0-9]+)', s) matches at the start of s
\* and need not reach its end.  [A-Za-z0-9]+ must be followed by the asterisk,
\* which is not in its class, so it takes the whole run of letters and digits
\* s starts with; [0-9]+ takes the whole run of digits after the asterisk.
Group1Len(str) == Span(str, 1, Letters \cup Digits)

Group2Len(str) == Span(str, Group1Len(str) + 2, Digits)

Match(str) ==
    /\ Group1Len(str) >= 1
    /\ Group1Len(str) + 1 <= Len(str)
    /\ str[Group1Len(str) + 1] = "*"
    /\ Group2Len(str) >= 1

Group1(str) == SubSeq(str, 1, Group1Len(str))

Group2(str) ==
    SubSeq(str, Group1Len(str) + 2, Group1Len(str) + 1 + Group2Len(str))

DigitValue(c) == IF c = "2" THEN 2 ELSE 0

\* int() of a string of decimal digits
RECURSIVE IntOf(_)
IntOf(ds) ==
    IF ds = <<>> THEN 0
    ELSE 10 * IntOf(SubSeq(ds, 1, Len(ds) - 1)) + DigitValue(ds[Len(ds)])

\* lines 46-49: what one entry adds to out
Expand(str) ==
    IF Match(str)
    THEN [i \in 1..IntOf(Group2(str)) |-> Group1(str)]
    ELSE <<str>>

\* lines 44-49: one iteration of the for loop
ExpandEntry ==
    /\ spos < Len(systems)
    /\ out' = out \o Expand(systems[spos + 1])
    /\ spos' = spos + 1
    /\ UNCHANGED <<mcmc, gip, systems>>

\* a call of expandSystems with any list of entries
SysInit ==
    /\ NoRun
    /\ NoGip
    /\ systems \in SystemLists
    /\ out = <<>>
    /\ spos = 0

SysNext == ExpandEntry

SysSpec == SysInit /\ [][SysNext]_vars

\* ------------------------------------------------------------ properties
\* the first n iterations of the buffers, as a checkpoint record
Prefix(n) ==
    [kind |-> "npz",
     chain |-> SubSeq(chain, 1, n),
     lnprobability |-> SubSeq(lnprob, 1, n)]

\* every iteration of a checkpoint record was written by a sampler step
Filled(rec) ==
    \A i \in 1..Len(rec.chain) :
        /\ rec.chain[i] \in {s.p : s \in Samples}
        /\ rec.lnprobability[i] \in {s.l : s \in Samples}

\* C1: every checkpoint a run has written (autosave, after an interruption,
\* after completion) holds exactly the first savedAt iterations of chain and
\* lnprob, savedAt being the cursor when writeNpz was called, and none of the
\* unfilled iterations after them.
C1_CheckpointIsFilledPrefix ==
    (written # "none" /\ npz.kind = "npz") =>
        /\ savedAt \in 0..niters
        /\ savedAt <= index
        /\ npz = Prefix(savedAt)
        /\ Len(npz.chain) = savedAt
        /\ Len(npz.lnprobability) = savedAt
        /\ Filled(npz)

\* C1 witness: a finished checkpoint of a buffer that has unfilled iterations
\* after the cursor
C1_Witness ==
    /\ written = "autosave"
    /\ npz.kind = "npz"
    /\ 0 < savedAt
    /\ savedAt < Len(chain)
    /\ chain[savedAt + 1] = ZeroPos

\* C2: when Ctrl+C is caught in the sampling loop with the cursor at k, no
\* sampler step is begun or finished afterwards, the cursor stays at k, the
\* export is not written, and the run ends with a checkpoint of exactly k
\* iterations.
C2_InterruptedInv ==
    interrupted =>
        /\ raised = "KeyboardInterrupt"
        /\ raisedAt \in TryPcs
        /\ pc \in {"final1", "final2", "done", "crashed"}
        /\ ~exported
        /\ outfile = NoChainFile
        /\ (pc = "done" =>
              /\ written = "final"
              /\ npz = Prefix(index)
              /\ Len(npz.chain) = index
              /\ \A i \in 1..index : DOMAIN npz.chain[i] = Walkers)

C2_InterruptedStep ==
    interrupted =>
        \/ pc' = "idle"
        \/ /\ index' = index
           /\ steps' = steps
           /\ remaining' = remaining
           /\ chain' = chain
           /\ lnprob' = lnprob
           /\ pc' \notin {"step", "w1", "w2", "w3", "export1", "export2"}

C2_InterruptLeavesCheckpoint == [](C2_InterruptedInv) /\ [][C2_InterruptedStep]_vars

\* C2 witness: a run interrupted during a sampler step after one finished
\* iteration of two, ended
C2_Witness ==
    /\ interrupted
    /\ raisedAt = "step"
    /\ pc = "done"
    /\ index = 1
    /\ niters = 2

\* C3: on normal completion the final checkpoint is written before the
\* exporter is called, so that once the export has begun, and whatever happens
\* to it, the checkpoint on disk holds all niters iterations (stated for the
\* runs that ask for at least one iteration).
C3_CheckpointBeforeExport ==
    (exported /\ niters > 0) =>
        /\ written = "final"
        /\ npz.kind = "npz"
        /\ Len(npz.chain) = niters
        /\ npz = Prefix(niters)

\* the final states of a run: doMCMC returned, or an exception left it
Ended == pc \in {"done", "crashed"}

\* completed with the final checkpoint and the export written
CompletedBoth ==
    /\ pc = "done"
    /\ ~interrupted
    /\ index = niters
    /\ written = "final"
    /\ npz = Prefix(niters)
    /\ outfile = XSpecChain(chain, lnprob)

\* interrupted with the checkpoint written and no export
InterruptedCheckpointOnly ==
    /\ pc = "done"
    /\ interrupted
    /\ written = "final"
    /\ npz = Prefix(index)
    /\ ~exported
    /\ outfile = NoChainFile

\* an exception left doMCMC before any sampling step was executed (read
\* generously: before the sampler yielded the result of a first step)
FatalBeforeSampling ==
    /\ pc = "crashed"
    /\ cause # ""
    /\ steps = 0

\* an exception left doMCMC after sampling had begun: a pool failure in a
\* step, an I/O failure in a write, or Ctrl+C outside the try statement
\* (during the export or the final checkpoint write)
FatalAfterSamplingBegan ==
    /\ pc = "crashed"
    /\ \/ /\ cause = "PoolError"
          /\ raisedAt = "step"
          /\ ~exported /\ ~interrupted
       \/ /\ cause = "IOError"
          /\ \/ raisedAt \in WritePcs
             \/ interrupted /\ raisedAt \in TryPcs
       \/ /\ cause = "KeyboardInterrupt"
          /\ \/ raisedAt \in {"export1", "export2", "final1", "final2"}
             \/ interrupted /\ raisedAt \in TryPcs

\* C4 as stated: every final state is completed-with-both-artifacts,
\* interrupted-with-checkpoint-only or fatal-error-before-sampling.
C4_ThreeFinalStates ==
    Ended => (CompletedBoth \/ InterruptedCheckpointOnly \/ FatalBeforeSampling)

\* C4 amended: every final state is one of those three, or a fatal error
\* raised after sampling began (pool failure in a step, I/O failure in a
\* write, Ctrl+C during the export or the final checkpoint write).
C4_FourFinalStates ==
    Ended => (CompletedBoth \/ InterruptedCheckpointOnly \/ FatalBeforeSampling
                \/ FatalAfterSamplingBegan)

\* C4 witness: the pool failed in the second sampling step
C4_Witness ==
    /\ pc = "crashed"
    /\ cause = "PoolError"
    /\ steps = 1
    /\ index = 1
    /\ raisedAt = "step"
    /\ ~FatalBeforeSampling
    /\ FatalAfterSamplingBegan

\* a resumed run has read a checkpoint whose X iterations fit in niters
Resumed ==
    /\ continuerun
    /\ loaded.kind = "npz"
    /\ Len(loaded.chain) <= niters

\* C5: in a run resumed from a checkpoint of X iterations with niters >= X, the
\* first X iterations of chain and lnprob are the checkpoint's in every state,
\* the cursor is never below X, and every checkpoint the run writes begins
\* with the loaded X iterations.
C5_ResumePrefixKept ==
    Resumed =>
        LET X == Len(loaded.chain) IN
        /\ Len(chain) >= X
        /\ SubSeq(chain, 1, X) = loaded.chain
        /\ SubSeq(lnprob, 1, X) = loaded.lnprobability
        /\ index >= X
        /\ savedAt >= X \/ written = "none"
        /\ (written # "none" /\ npz.kind = "npz") =>
              /\ Len(npz.chain) >= X
              /\ SubSeq(npz.chain, 1, X) = loaded.chain
              /\ SubSeq(npz.lnprobability, 1, X) = loaded.lnprobability

\* C5 witness: a run resumed from one iteration has sampled a second one and
\* written a checkpoint of both
C5_Witness ==
    /\ Resumed
    /\ Len(loaded.chain) = 1
    /\ index = 2
    /\ written # "none"
    /\ npz.kind = "npz"
    /\ Len(npz.chain) = 2

\* C6: a run resumed from any checkpoint a run can write, the one with zero
\* filled iterations included, sets the cursor to the checkpoint's length and
\* starts from positions taken from the checkpoint, not from the initial draw
\* or the initial-parameters file (stated for the resumes that ask for at least
\* one iteration).
C6_ResumeFromAnyCheckpoint ==
    (Resumed /\ niters > 0) =>
        /\ start = Len(loaded.chain)
        /\ index >= start
        /\ pos.src = "chain"
        /\ Len(loaded.chain) > 0 => pos.val = loaded.chain[Len(loaded.chain)]
        /\ cause # "IndexError"

C8_ResumeWithoutNewIterationsIsFatal ==
    (continuerun /\ loaded.kind = "npz" /\ niters <= Len(loaded.chain)) =>
        /\ Ended => pc = "crashed"
        /\ steps = 0
        /\ written = "none"
        /\ ~exported
        /\ npz = npz0

\* C9: a pool failure in a sampling step leaves doMCMC uncaught; nothing is
\* written after it: no export exists, no write is in progress, and outnpz is
\* the checkpoint of the last autosave, or as the run found it if the run
\* made no autosave.
C9_PoolFailurePropagates ==
    (raised = "PoolError" /\ raisedAt = "step") =>
        /\ pc = "crashed"
        /\ cause = "PoolError"
        /\ ~interrupted
        /\ ~exported
        /\ outfile = NoChainFile
        /\ wrec = Absent
        /\ written \in {"none", "autosave"}
        /\ written = "autosave" => (npz = Prefix(savedAt) /\ savedAt <= index)
        /\ written = "none" => npz = npz0
        /\ (written = "none" /\ ~continuerun /\ npz0 = Absent) => npz = Absent

\* C9 witness: the pool failed in the second step, after an autosave of the
\* first
C9_Witness ==
    /\ raised = "PoolError"
    /\ raisedAt = "step"
    /\ pc = "crashed"
    /\ written = "autosave"
    /\ index = 1
    /\ npz = Prefix(1)

\* C10: on normal completion the final checkpoint has niters iterations of
\* nwalkers x ndims values, the export has nwalkers*niters rows of ndims+1
\* columns and its header records both counts; the export is only begun with
\* the cursor at niters and every iteration filled.
C10_ArtifactsConsistent ==
    /\ (pc = "done" /\ ~interrupted) =>
          /\ npz.kind = "npz"
          /\ Len(npz.chain) = niters
          /\ Len(npz.lnprobability) = niters
          /\ \A i \in 1..niters :
                /\ DOMAIN npz.chain[i] = Walkers
                /\ \A w \in Walkers : DOMAIN npz.chain[i][w] = Dims
                /\ DOMAIN npz.lnprobability[i] = Walkers
          /\ outfile.kind = "chain"
          /\ outfile.length = NWalkers * niters
          /\ outfile.width = NDims + 1
          /\ Len(outfile.rows) = NWalkers * niters
          /\ \A r \in 1..Len(outfile.rows) : Len(outfile.rows[r]) = NDims + 1
    /\ exported =>
          /\ index = niters
          /\ Len(chain) = niters
          /\ Filled(Prefix(niters))
          /\ ~interrupted

\* C10 witness: a resumed run completed with both artifacts
C10_Witness ==
    /\ pc = "done"
    /\ ~interrupted
    /\ continuerun
    /\ niters = 2
    /\ start = 1
    /\ outfile.kind = "chain"
    /\ outfile.length = NWalkers * 2

\* ----------------------------------------- properties of getInitialParameters
\* C11: everything getInitialParameters returns is nwalkers vectors, each as
\* long as the parameter list, and every value whose descriptor has
\* val_hardmin <= val_hardmax lies in [val_hardmin, val_hardmax]; a draw
\* outside the range is replaced by the limit it passed, so every draw yields
\* one value.
C11_InitialParametersClipped ==
    /\ gpc = "returned" =>
          /\ Len(gp0) = nwalkers
          /\ \A w \in 1..Len(gp0) :
                /\ Len(gp0[w]) = Len(parameters)
                /\ \A j \in 1..Len(parameters) :
                      parameters[j].val_hardmin <= parameters[j].val_hardmax =>
                          /\ gp0[w][j] >= parameters[j].val_hardmin
                          /\ gp0[w][j] <= parameters[j].val_hardmax
    /\ (gpc = "par" /\ pwalker # <<>>) =>
          LET par == parameters[Len(pwalker)]
              lo == par.val_hardmin
              hi == par.val_hardmax
          IN  lo <= hi =>
                \E z \in StdNormal :
                  LET v == normal.loc + normal.scale * z
                  IN  pwalker[Len(pwalker)] =
                          IF v < lo THEN lo ELSE IF v > hi THEN hi ELSE v

\* two walkers of two parameters returned, one value cut to the upper limit
\* and one to the lower
C11_Witness ==
    /\ gpc = "returned"
    /\ nwalkers = NWalkers
    /\ Len(parameters) = NDims
    /\ parameters[1] = Descriptor(0, 2, 10, 0 - 1, 1)
    /\ gp0[1][1] = 1
    /\ gp0[2][1] = 0 - 1

\* --------------------------------------------- properties of the buffers
\* positions pm and log-probabilities lv are the two halves of one sampler step
SameStep(pm, lv) == \E s \in Samples : s.p = pm /\ s.l = lv

CoIndexed(rec) ==
    /\ Len(rec.chain) = Len(rec.lnprobability)
    /\ \A i \in 1..Len(rec.chain) : SameStep(rec.chain[i], rec.lnprobability[i])

\* C12: in every state, each iteration below the cursor holds in chain and in
\* lnprob the two halves of one sampler step (for the iterations of this run,
\* the step that yielded them), and so does every iteration of the checkpoint
\* file and of the arrays being saved; also when KeyboardInterrupt arrives
\* between the two buffer writes of a step.
C12_CoIndexed ==
    /\ index <= Len(chain)
    /\ \A i \in 1..index : SameStep(chain[i], lnprob[i])
    /\ \A i \in (start + 1)..index :
          /\ i - start <= Len(yielded)
          /\ chain[i] = yielded[i - start].p
          /\ lnprob[i] = yielded[i - start].l
    /\ npz.kind = "npz" => CoIndexed(npz)
    /\ wrec.kind = "npz" => CoIndexed(wrec)

\* KeyboardInterrupt arrived between lines 120 and 121 of the second step: the
\* buffers hold positions without log-probabilities at the cursor, and the
\* checkpoint written holds the first step only
C12_Witness ==
    /\ pc = "done"
    /\ interrupted
    /\ raisedAt = "w2"
    /\ index = 1
    /\ chain[2] = p /\ lnprob[2] = ZeroLn
    /\ p # ZeroPos
    /\ npz = Prefix(1)

\* the sampling loop has been entered in this run
SamplingBegun ==
    \/ pc \in TryPcs \cup {"export1", "export2", "final1", "final2", "done"}
    \/ pc = "crashed" /\ raisedAt \notin SetupPcs

C13_CursorInv ==
    /\ SamplingBegun =>
          /\ start = (IF continuerun THEN Len(loaded.chain) ELSE 0)
          /\ start <= index
          /\ index <= niters
          /\ index - start \in {steps, steps - 1}
    /\ pc \in {"loop", "chk"} => index = start + steps
    /\ pc \in {"w1", "w2"} => index < niters /\ Len(chain) = niters

C13_CursorStep ==
    /\ (pc = "alloc" /\ pc' = "loop") => index' = start'
    /\ (SamplingBegun /\ pc' # "idle") =>
          /\ start' = start
          /\ \/ index' = index
             \/ pc = "w3" /\ pc' = "chk" /\ index' = index + 1

\* C13: the cursor is 0 at the start of a fresh run and the length of the
\* loaded checkpoint at the start of a resumed one; it never decreases and
\* increases by one exactly when a sampler step has written both buffers; it
\* satisfies start <= cursor <= niters in every state of and after the
\* sampling loop; every buffer write is at an index below niters.
C13_CursorBounded == [](C13_CursorInv) /\ [][C13_CursorStep]_vars

\* a resumed run of one loaded iteration has completed with the cursor at niters
C13_Witness ==
    /\ pc = "done"
    /\ ~interrupted
    /\ continuerun
    /\ start = 1
    /\ steps = 1
    /\ index = 2
    /\ niters = 2

\* ----------------------------------------------------- properties of burn-in
\* the test of line 77 has been evaluated in this run
PastBurnTest ==
    /\ pc \notin {"idle", "pool", "p0", "burnq"}
    /\ ~(pc = "crashed" /\ raisedAt \in {"pool", "p0", "burnq"})

\* run_mcmc(p0, nburn) was entered in this run
BurnInRan == state = "burnt" \/ pc = "burn" \/ raisedAt = "burn"

C14_BurnInv ==
    /\ PastBurnTest => (BurnInRan <=> (~continuerun /\ nburn > 0))
    /\ pc = "burn" => chain = <<>> /\ lnprob = <<>> /\ steps = 0
    /\ (pc = "loop" /\ ~continuerun /\ steps = 0) =>
          /\ index = 0
          /\ Len(chain) = niters
          /\ chain = [i \in 1..niters |-> ZeroPos]
          /\ lnprob = [i \in 1..niters |-> ZeroLn]
          /\ nburn > 0 => pos.src = "burn" /\ state = "burnt"
          /\ nburn = 0 => pos = p0 /\ state = "None"

C14_BurnStep == pc = "burn" => UNCHANGED <<chain, lnprob, index, yielded, npz>>

\* C14: burn-in runs exactly when the run is no resume and nburn > 0; while it
\* runs nothing is written to chain, lnprob or the checkpoint; after it the
\* sampling loop begins at iteration 0 of zero-filled buffers of niters
\* iterations, with the positions and the random state burn-in ended with.
C14_BurnInOnlyFresh == [](C14_BurnInv) /\ [][C14_BurnStep]_vars

\* a fresh run is about to take its first step after one burn-in iteration
C14_Witness ==
    /\ pc = "loop"
    /\ ~continuerun
    /\ nburn = 1
    /\ niters = 2
    /\ steps = 0
    /\ state = "burnt"
    /\ pos.src = "burn"
    /\ chain = Zeros3(2)

\* ---------------------------------------------------- properties of autosave
\* the buffers as the sampler steps of this run alone determine them: the
\* loaded iterations, then the values yielded, in order
YieldedChain == (IF continuerun THEN loaded.chain ELSE <<>>)
                    \o [i \in 1..Len(yielded) |-> yielded[i].p]

YieldedLnprob == (IF continuerun THEN loaded.lnprobability ELSE <<>>)
                     \o [i \in 1..Len(yielded) |-> yielded[i].l]

C15_AutosaveStep ==
    pc \in {"chk", "asave1", "asave2"} => UNCHANGED <<chain, lnprob, index>>

C15_FinalInv ==
    /\ pc \in {"loop", "chk", "asave1", "asave2"} =>
          /\ SubSeq(chain, 1, index) = YieldedChain
          /\ SubSeq(lnprob, 1, index) = YieldedLnprob
    /\ (pc = "done" /\ ~interrupted) =>
          /\ chain = YieldedChain
          /\ lnprob = YieldedLnprob
          /\ npz = [kind |-> "npz", chain |-> YieldedChain,
                    lnprobability |-> YieldedLnprob]
          /\ outfile.length = NWalkers * Len(YieldedChain)
          /\ outfile.rows = XSpecChain(YieldedChain, YieldedLnprob).rows

\* C15: the autosave test and an autosave write leave chain, lnprob and the
\* cursor unchanged; the final buffers, the final checkpoint and the export of
\* a completed run are those the loaded iterations and the sequence of values
\* yielded determine, whenever autosaves were taken (never, after some steps,
\* after every step).
C15_AutosaveIsFrame == [](C15_FinalInv) /\ [][C15_AutosaveStep]_vars

\* the loop has ended after two steps with an autosave after the first only
C15_Witness ==
    /\ pc = "export1"
    /\ ~continuerun
    /\ niters = 2
    /\ index = 2
    /\ written = "autosave"
    /\ savedAt = 1
    /\ chain = YieldedChain

\* ------------------------------------------------- properties of the export
C16_ExportStep ==
    pc \in {"export1", "export2"} => UNCHANGED <<chain, lnprob, index>>

C16_AfterExportInv ==
    /\ (exported /\ pc \in {"final1", "final2", "done"}) =>
          /\ chain = YieldedChain
          /\ lnprob = YieldedLnprob
          /\ Filled([chain |-> chain, lnprobability |-> lnprob])
    /\ (exported /\ pc = "done") =>
          /\ npz.chain = YieldedChain
          /\ npz.lnprobability = YieldedLnprob
          /\ Filled(npz)

\* C16: writeXSpecChain leaves chain and lnprob of doMCMC as they were: after
\* it has returned they hold the values the sampler yielded (log-space values
\* for the log parameters), and so does the final checkpoint written after it.
C16_ExportLeavesBuffers == [](C16_AfterExportInv) /\ [][C16_ExportStep]_vars

\* a completed run whose export holds 10**v in the column of a log parameter
\* and whose final checkpoint holds v
C16_Witness ==
    /\ pc = "done"
    /\ exported
    /\ written = "final"
    /\ niters = 2
    /\ outfile.kind = "chain"
    /\ ParList[ParIdxs[2]].log
    /\ outfile.rows[1][2] = 10 ^ (npz.chain[1][1][2])
    /\ outfile.rows[1][2] # npz.chain[1][1][2]

\* the value a cell of the export is made from: column j of walker w at
\* iteration i, the last column being the chi-squared one
ExportValue(w, i, j) ==
    IF j = NDims + 1 THEN (0 - 2) * lnprob[i][w]
    ELSE IF ParList[ParIdxs[j]].log THEN 10 ^ (chain[i][w][j])
    ELSE chain[i][w][j]

\* C17 as stated: in a written export, row w*niters + i (walkers and
\* iterations counted from 0) holds in column j the value chain[w, i, j] of a
\* parameter not flagged log, 10^chain[w, i, j] of a flagged one, and in the
\* last column -2*lnprob[w, i].
C17_ExportRowsExact ==
    outfile.kind = "chain" =>
        \A w \in Walkers : \A i \in 1..niters : \A j \in 1..(NDims + 1) :
            outfile.rows[(w - 1) * niters + i][j] = ExportValue(w, i, j)

Abs(x) == IF x < 0 THEN 0 - x ELSE x

\* y is x rounded to six significant digits
SixDigits(x, y) ==
    IF Abs(x) < 1000000
    THEN y = x
    ELSE \E e \in 1..6 :
           LET q == 10 ^ e
           IN  /\ Abs(x) \div q < 1000000
               /\ Abs(x) \div q >= 100000
               /\ y % q = 0
               /\ 2 * Abs(x - y) <= q

\* C17 (amended): in a written export, row w*niters + i holds in every column
\* the value named above as '%g' prints it, that is rounded to six significant
\* digits; the row has NDims + 1 columns and the table nwalkers*niters rows.
C17_ExportRowsPrinted ==
    outfile.kind = "chain" =>
        /\ Len(outfile.rows) = NWalkers * niters
        /\ \A w \in Walkers : \A i \in 1..niters :
              /\ DOMAIN outfile.rows[(w - 1) * niters + i] = 1..(NDims + 1)
              /\ \A j \in 1..(NDims + 1) :
                    SixDigits(ExportValue(w, i, j),
                              outfile.rows[(w - 1) * niters + i][j])

\* an export of two iterations whose second walker's rows follow the first
\* walker's, with a log column holding 10**v and a chi-squared value that
\* needs seven digits printed with six
C17_Witness ==
    /\ outfile.kind = "chain"
    /\ niters = 2
    /\ chain[1] # chain[2]
    /\ outfile.rows[3][1] = chain[1][2][1]
    /\ outfile.rows[3][2] = 10 ^ (chain[1][2][2])
    /\ outfile.rows[2][3] # (0 - 2) * lnprob[2][1]
    /\ SixDigits((0 - 2) * lnprob[2][1], outfile.rows[2][3])

\* ------------------------------------------------- properties of completion
\* completed: the steps asked for were taken, the export and the final
\* checkpoint are written
Completed ==
    /\ pc = "done"
    /\ ~interrupted
    /\ raised = ""
    /\ steps = niters - start
    /\ index = niters
    /\ exported
    /\ outfile.kind = "chain"
    /\ outfile.length = NWalkers * niters
    /\ written = "final"
    /\ npz.kind = "npz"
    /\ Len(npz.chain) = niters

C18_CompletedInv ==
    /\ pc = "done" => Completed
    /\ SamplingBegun => pc # "crashed" /\ raised = ""

C18_CompletedStep ==
    (pc \in TryPcs /\ pc' \in {"export1", "export2"}) =>
        /\ pc = "loop"
        /\ index = niters
        /\ steps = niters - start

\* C18: when no KeyboardInterrupt arrives and every sampler step and file
\* write returns, a run that has entered the sampling loop reaches the
\* completed state: exactly niters - start steps were taken, the cursor is
\* niters, the export and the final checkpoint are written.  The loop is left
\* for the export only with the cursor at niters.
C18_RunCompletes ==
    /\ [](C18_CompletedInv)
    /\ [][C18_CompletedStep]_vars
    /\ (pc = "loop" ~> Completed)

\* a fresh run of two iterations has completed with no exception
C18_Witness ==
    /\ pc = "done"
    /\ raised = ""
    /\ ~continuerun
    /\ niters = 2
    /\ steps = 2
    /\ index = 2
    /\ outfile.kind = "chain"
    /\ npz.kind = "npz"

\* ------------------------------------------------ properties of expandSystems
\* the position of the first asterisk of str, Len(str) + 1 if it has none
FirstStar(str) == Span(str, 1, Chars \ {"*"}) + 1

\* str has the form NAME*K: a name, an asterisk, a decimal count
IsShorthand(str) ==
    /\ FirstStar(str) > 1
    /\ FirstStar(str) < Len(str)
    /\ \A k \in (FirstStar(str) + 1)..Len(str) : str[k] \in Digits

ShorthandName(str) == SubSeq(str, 1, FirstStar(str) - 1)

\* the decimal count of NAME*K
RECURSIVE Decimal(_, _)
Decimal(str, k) ==
    IF k > Len(str) THEN 0
    ELSE (IF str[k] = "2" THEN 2 ELSE 0) * 10 ^ (Len(str) - k) + Decimal(str, k + 1)

ShorthandCount(str) == Decimal(str, FirstStar(str) + 1)

\* what the shorthand says the first n entries of systems stand for
RECURSIVE Expansion(_)
Expansion(n) ==
    IF n = 0 THEN <<>>
    ELSE Expansion(n - 1) \o
         (IF IsShorthand(systems[n])
          THEN [i \in 1..ShorthandCount(systems[n]) |-> ShorthandName(systems[n])]
          ELSE <<systems[n]>>)

\* C19: after every iteration of its loop, the list expandSystems has built
\* is the entries taken so far, in order, with each entry NAME*K (NAME any
\* name, K a decimal count) replaced by K copies of NAME and every other
\* entry kept once unchanged.
C19_ShorthandExpanded == out = Expansion(spos)

\* ----------------------------------------------- properties of the draw spread
\* C20: for every draw of getInitialParameters, the centre passed to
\* N.random.normal is val_init of the parameter, and the spread is
\* val_sigma*0.1 exactly when 0 < val_sigma*0.1 < val_delta and val_delta
\* otherwise (the comparison is made on ten times both sides).
C20_SpreadRule ==
    normal.par # 0 =>
        LET par == parameters[normal.par]
            sigmaIsNarrower == 0 < par.val_sigma /\ par.val_sigma < 10 * par.val_delta
        IN  /\ normal.loc = par.val_init
            /\ sigmaIsNarrower => 10 * normal.scale = par.val_sigma
            /\ ~sigmaIsNarrower => normal.scale = par.val_delta

\* a draw whose spread is val_sigma*0.1 = 1, below val_delta = 2, after a draw
\* of a parameter whose val_sigma*0.1 is above its val_delta
C20_Witness ==
    /\ Len(parameters) = 2
    /\ Len(pwalker) = 2
    /\ parameters[1].val_sigma = 30
    /\ parameters[1].val_delta = 1
    /\ normal.par = 2
    /\ parameters[2].val_sigma = 10
    /\ parameters[2].val_delta = 2
    /\ normal.scale = 1
    /\ normal.loc = parameters[2].val_init

====
